---- MODULE Spec2Model ----
(***************************************************************************)
(* The conversation server of src/server.py: the Server object's registry  *)
(* (Server.conversations) and the four FastAPI endpoints that operate on   *)
(* it.  The endpoints are `async def` coroutines whose bodies never await, *)
(* so the event loop runs one handler at a time; the one place where a     *)
(* handler spends time is the blocking query_engine.query call of          *)
(* Server.serve, which is modelled as a step of its own.                   *)
(***************************************************************************)
EXTENDS Integers, Sequences, FiniteSets, TLC

(* ------------------------------ bounds -------------------------------- *)

\* number of requests the clients send in one run
MaxReqs == 3

\* number of conversations one run creates
MaxConvs == 2

\* time.time() delivers a value of 0..MaxTime
MaxTime == 1

\* the conversation ids a request can name: one more than a run can create,
\* so that an id the registry does not hold always exists
Ids == 1..(MaxConvs + 1)

\* number of documents passed to chunk_documents
MaxDocs == 3

\* chunk_documents is called with a batch_size of 1..MaxBatch
MaxBatch == 3

\* number of messages a client session shows
MaxShown == 5

Times == 0..MaxTime

\* the user_message texts a client sends
Texts == {"q1", "q2"}

\* the texts the query engine generates
Answers == {"r1", "r2"}

VARIABLES
    conversations,  \* Server.conversations: the list of conversation dicts
    inflight,       \* the /chat handlers that are inside query_engine.query
    last,           \* the request completed last and the response it got
    accepted,       \* how many requests have been accepted so far
    issued,         \* the ids start_new_conversation has returned, in order
    calls,          \* per conversation id, the store_message calls made on it while it
                    \* existed, in call order: the message and the request it was for
    queries,        \* how many times query_engine.query has been started
    failed,         \* the /chat requests whose query_engine.query raised
    phase,          \* the application's lifespan: "startup", "serving" or "aborted"
    index,          \* Server.index: "None" until VectorStoreIndex(...) is assigned
    loader,         \* a call of recipe_text_template: the row and the text so far
    chunker,        \* a call of Server.chunk_documents: arguments, iterator, nodes
    client          \* the Streamlit session of src/app.py: st.session_state

\* the registry and the requests on it
serverVars == <<conversations, inflight, last, accepted, issued, calls, queries, failed>>

\* what no request handler writes
fixedVars == <<phase, index, loader, chunker, client>>

vars == <<serverVars, phase, index, loader, chunker, client>>

(* ------------------------------ helpers ------------------------------- *)

Range(s) == {s[i] : i \in 1..Len(s)}

Min(S) == CHOOSE x \in S : \A y \in S : x <= y

(* ------------------------------ messages ------------------------------ *)

\* Message(role=..., content=...).model_dump()
Message(role, content) == [role |-> role, content |-> content]

\* the user's text stored under the assistant's role
UserMessageWrongRole(text) == Message("assistant", text)

\* Message(role="user", content=user_message)
UserMessage(text) == Message("user", text)

\* Message(**{'role': "assistant", 'content': response.response})
AssistantMessage(text) == Message("assistant", text)

(* ------------------------------ exceptions ---------------------------- *)

\* ValueError(f"Conversation ID {conversation_id} not found.")
NotFoundError(cid) == [type |-> "ValueError", about |-> cid, msg |-> "not found"]

\* whatever query_engine.query raises when retrieval or generation fails
QueryError == [type |-> "Exception", about |-> 0, msg |-> "query failed"]

(* --------------------------- the registry ----------------------------- *)

\* the positions of the list whose conversation has this id
Positions(convs, cid) == {i \in 1..Len(convs) : convs[i].id = cid}

\* list.sort(key=lambda c: c["start_time"], reverse=True) puts one element in
\* its place: after every element whose key is not smaller (the sort is stable)
InsertDesc(x, s) ==
    LET p == Cardinality({i \in 1..Len(s) : s[i].start_time >= x.start_time})
    IN  SubSeq(s, 1, p) \o <<x>> \o SubSeq(s, p + 1, Len(s))

RECURSIVE SortDesc(_)
SortDesc(s) ==
    IF s = <<>> THEN <<>>
    ELSE InsertDesc(s[Len(s)], SortDesc(SubSeq(s, 1, Len(s) - 1)))

\* a generator that can return an identifier it returned before
uuid4Repeating(used) == Ids

\* uuid.uuid4(): an identifier no earlier call has returned
uuid4(used) == Ids \ used

\* start_new_conversation without the sort of line 61
StartNewConversationNoSort(convs, cid, now) ==
    Append(convs, [id |-> cid, start_time |-> now, messages |-> <<>>])

\* start_new_conversation keeping one conversation per start time: the new one
\* takes the place of those created at the same clock reading
StartNewConversationKeyed(convs, cid, now) ==
    SortDesc(Append(SelectSeq(convs, LAMBDA c : c.start_time # now),
                    [id |-> cid, start_time |-> now, messages |-> <<>>]))

\* Server.start_new_conversation, given the uuid and the clock's reading
StartNewConversation(convs, cid, now) ==
    SortDesc(Append(convs, [id |-> cid, start_time |-> now, messages |-> <<>>]))

\* store_message putting the message at the head of the log
StoreMessagePrepend(convs, cid, m) ==
    IF Positions(convs, cid) = {}
    THEN [raised |-> TRUE, exc |-> NotFoundError(cid), convs |-> convs]
    ELSE LET i == Min(Positions(convs, cid))
         IN  [raised |-> FALSE, exc |-> NotFoundError(0),
              convs |-> [convs EXCEPT ![i].messages = <<m>> \o @]]

\* store_message creating the conversation it does not find
StoreMessageCreate(convs, cid, m) ==
    IF Positions(convs, cid) = {}
    THEN [raised |-> FALSE, exc |-> NotFoundError(0),
          convs |-> Append(convs, [id |-> cid, start_time |-> 0, messages |-> <<m>>])]
    ELSE LET i == Min(Positions(convs, cid))
         IN  [raised |-> FALSE, exc |-> NotFoundError(0),
              convs |-> [convs EXCEPT ![i].messages = Append(@, m)]]

\* store_message assigning the log instead of appending to it
StoreMessageReplace(convs, cid, m) ==
    IF Positions(convs, cid) = {}
    THEN [raised |-> TRUE, exc |-> NotFoundError(cid), convs |-> convs]
    ELSE LET i == Min(Positions(convs, cid))
         IN  [raised |-> FALSE, exc |-> NotFoundError(0),
              convs |-> [convs EXCEPT ![i].messages = <<m>>]]

\* store_message appending to the conversation at the head of the list
StoreMessageFirst(convs, cid, m) ==
    IF Positions(convs, cid) = {}
    THEN [raised |-> TRUE, exc |-> NotFoundError(cid), convs |-> convs]
    ELSE [raised |-> FALSE, exc |-> NotFoundError(0),
          convs |-> [convs EXCEPT ![1].messages = Append(@, m)]]

\* Server.store_message: append to the first conversation with this id, or raise
StoreMessage(convs, cid, m) ==
    IF Positions(convs, cid) = {}
    THEN [raised |-> TRUE, exc |-> NotFoundError(cid), convs |-> convs]
    ELSE LET i == Min(Positions(convs, cid))
         IN  [raised |-> FALSE, exc |-> NotFoundError(0),
              convs |-> [convs EXCEPT ![i].messages = Append(@, m)]]

\* get_conversation returning an empty log for an id it does not find
GetConversationSilent(convs, cid) ==
    IF Positions(convs, cid) = {}
    THEN [raised |-> FALSE, exc |-> NotFoundError(0), value |-> <<>>]
    ELSE [raised |-> FALSE, exc |-> NotFoundError(0),
          value |-> convs[Min(Positions(convs, cid))].messages]

\* Server.get_conversation: the messages of the first conversation with this id, or raise
GetConversation(convs, cid) ==
    IF Positions(convs, cid) = {}
    THEN [raised |-> TRUE, exc |-> NotFoundError(cid), value |-> <<>>]
    ELSE [raised |-> FALSE, exc |-> NotFoundError(0),
          value |-> convs[Min(Positions(convs, cid))].messages]

\* Server.get_all_conversations
GetAllConversations(convs) ==
    [i \in 1..Len(convs) |-> [id |-> convs[i].id, start_time |-> convs[i].start_time]]

(* --------------------------- the transport ---------------------------- *)

\* a handler's normal return: FastAPI answers 200 with the returned dict
Ok(body) == [status |-> 200, body |-> body]

\* except Exception as e: raise HTTPException(status_code=500, detail=str(e))
HttpError(e) == [status |-> 500, body |-> e]

\* handlers run off the event loop (plain `def` endpoints, on the thread pool):
\* a request is taken up whatever the other handlers are doing
LoopAlwaysFree == TRUE

\* the event loop takes up a request only when no handler is running: a handler
\* that is inside Server.serve has not returned to the loop
LoopIdle == inflight = {}

\* an application created without lifespan=: requests are served at once
StartedAlways == TRUE

\* FastAPI(lifespan=lifespan): requests are served after on_startup has returned
Started == phase = "serving"

CanAccept == Started /\ LoopIdle /\ accepted < MaxReqs

\* the record of a completed request: what was asked (log0 is the conversation's
\* log when the request was accepted), the response, and the request's number
Completed(op, cid, text, log0, r, tag) ==
    [op |-> op, cid |-> cid, text |-> text, log0 |-> log0,
     status |-> r.status, body |-> r.body, tag |-> tag]

\* the store_message calls made so far, with one more on cid if cid exists
Called(cid, m, tag) ==
    IF cid \in Range(issued) THEN [calls EXCEPT ![cid] = Append(@, [m |-> m, tag |-> tag])]
    ELSE calls

(* ------------------------------- Init --------------------------------- *)

\* no call of the document loader, of the chunker or of the client is under way
Idle == [pc |-> "idle"]

\* Server(): the registry is empty and nothing is built
ServerInit ==
    /\ conversations = <<>>
    /\ inflight = {}
    /\ last = [op |-> "none", cid |-> 0, text |-> "", log0 |-> <<>>,
               status |-> 0, body |-> 0, tag |-> 0]
    /\ accepted = 0
    /\ issued = <<>>
    /\ calls = [c \in Ids |-> <<>>]
    /\ queries = 0
    /\ failed = {}
    /\ index = "None"

\* the module is imported: server = Server(), and the lifespan has not run yet
Init ==
    /\ ServerInit
    /\ phase = "startup"
    /\ loader = Idle
    /\ chunker = Idle
    /\ client = Idle

(* ------------------------------ actions ------------------------------- *)

\* the steps of on_startup that can raise, in the order they run
StartupStages == <<"embed_model", "load_documents", "chunk_documents", "index", "llm">>

\* lifespan: on_startup returns, the application starts serving
StartupOk ==
    /\ phase = "startup"
    /\ index' = "built"
    /\ phase' = "serving"
    /\ UNCHANGED <<serverVars, loader, chunker, client>>

\* lifespan: a step of on_startup raises, the application does not start;
\* self.index is assigned only if the steps up to line 45 have run
StartupFail ==
    /\ phase = "startup"
    /\ \E k \in 1..Len(StartupStages) :
        index' = IF StartupStages[k] = "llm" THEN "built" ELSE "None"
    /\ phase' = "aborted"
    /\ UNCHANGED <<serverVars, loader, chunker, client>>

\* POST /start_conversation
StartConversation ==
    /\ CanAccept
    /\ Len(issued) < MaxConvs
    /\ \E cid \in uuid4(Range(issued)), now \in Times :
        /\ conversations' = StartNewConversation(conversations, cid, now)
        /\ issued' = Append(issued, cid)
        /\ last' = Completed("start", cid, "", <<>>, Ok(cid), accepted + 1)
    /\ accepted' = accepted + 1
    /\ UNCHANGED <<inflight, calls, queries, failed>>
    /\ UNCHANGED fixedVars

\* GET /all_conversations
AllConversations ==
    /\ CanAccept
    /\ last' = Completed("all", 0, "", <<>>, Ok(GetAllConversations(conversations)),
                       accepted + 1)
    /\ accepted' = accepted + 1
    /\ UNCHANGED <<conversations, inflight, issued, calls, queries, failed>>
    /\ UNCHANGED fixedVars

\* a history request that hands the log over and empties it
HistoryDraining ==
    /\ CanAccept
    /\ \E cid \in Ids :
        LET g == GetConversation(conversations, cid)
        IN  /\ last' = Completed("history", cid, "", <<>>,
                                 IF g.raised THEN HttpError(g.exc) ELSE Ok(g.value),
                                 accepted + 1)
            /\ conversations' =
                    [i \in 1..Len(conversations) |->
                        IF conversations[i].id = cid
                        THEN [conversations[i] EXCEPT !.messages = <<>>]
                        ELSE conversations[i]]
    /\ accepted' = accepted + 1
    /\ UNCHANGED <<inflight, issued, calls, queries, failed>>
    /\ UNCHANGED fixedVars

\* GET /history/{conversation_id}
History ==
    /\ CanAccept
    /\ \E cid \in Ids :
        LET g == GetConversation(conversations, cid)
        IN  last' = Completed("history", cid, "", <<>>,
                              IF g.raised THEN HttpError(g.exc) ELSE Ok(g.value),
                              accepted + 1)
    /\ accepted' = accepted + 1
    /\ UNCHANGED <<conversations, inflight, issued, calls, queries, failed>>
    /\ UNCHANGED fixedVars

\* POST /chat, up to the call of query_engine.query (Server.serve, first half):
\* the user message is stored, and an unknown id ends the request at once
ChatBegin ==
    /\ CanAccept
    /\ \E cid \in Ids, text \in Texts :
        LET s == StoreMessage(conversations, cid, UserMessage(text))
            log0 == GetConversation(conversations, cid).value
        IN  /\ conversations' = s.convs
            /\ calls' = Called(cid, UserMessage(text), accepted + 1)
            /\ IF s.raised
               THEN /\ last' = Completed("chat", cid, text, log0, HttpError(s.exc),
                                         accepted + 1)
                    /\ UNCHANGED <<inflight, queries>>
               ELSE /\ inflight' = inflight \cup
                        {[cid |-> cid, text |-> text, log0 |-> log0, tag |-> accepted + 1]}
                    /\ queries' = queries + 1
                    /\ UNCHANGED last
    /\ accepted' = accepted + 1
    /\ UNCHANGED <<issued, failed>>
    /\ UNCHANGED fixedVars

\* serve returning the answer without the store_message of line 114
ChatQueryOkNoStore(f) ==
    /\ f \in inflight
    /\ \E answer \in Answers :
        last' = Completed("chat", f.cid, f.text, f.log0, Ok(answer), f.tag)
    /\ inflight' = inflight \ {f}
    /\ UNCHANGED <<conversations, accepted, issued, calls, queries, failed>>
    /\ UNCHANGED fixedVars

\* POST /chat, query_engine.query returns (Server.serve, second half): the
\* assistant message is stored and its text is the response
ChatQueryOk(f) ==
    /\ f \in inflight
    /\ \E answer \in Answers :
        LET s == StoreMessage(conversations, f.cid, AssistantMessage(answer))
        IN  /\ conversations' = s.convs
            /\ calls' = Called(f.cid, AssistantMessage(answer), f.tag)
            /\ last' = Completed("chat", f.cid, f.text, f.log0,
                                 IF s.raised THEN HttpError(s.exc) ELSE Ok(answer), f.tag)
    /\ inflight' = inflight \ {f}
    /\ UNCHANGED <<accepted, issued, queries, failed>>
    /\ UNCHANGED fixedVars

\* a failing query taking the user message back out of the log
ChatQueryFailRollback(f) ==
    /\ f \in inflight
    /\ conversations' =
            [i \in 1..Len(conversations) |->
                IF conversations[i].id = f.cid
                THEN [conversations[i] EXCEPT !.messages = f.log0]
                ELSE conversations[i]]
    /\ last' = Completed("chat", f.cid, f.text, f.log0, HttpError(QueryError), f.tag)
    /\ inflight' = inflight \ {f}
    /\ failed' = failed \cup {f.tag}
    /\ UNCHANGED <<accepted, issued, calls, queries>>
    /\ UNCHANGED fixedVars

\* POST /chat, query_engine.query raises: the handler answers 500 and what
\* serve stored before the call stays
ChatQueryFail(f) ==
    /\ f \in inflight
    /\ last' = Completed("chat", f.cid, f.text, f.log0, HttpError(QueryError), f.tag)
    /\ inflight' = inflight \ {f}
    /\ failed' = failed \cup {f.tag}
    /\ UNCHANGED <<conversations, accepted, issued, calls, queries>>
    /\ UNCHANGED fixedVars

Next ==
    \/ StartupOk
    \/ StartupFail
    \/ StartConversation
    \/ AllConversations
    \/ History
    \/ ChatBegin
    \/ \E f \in inflight : ChatQueryOk(f)
    \/ \E f \in inflight : ChatQueryFail(f)

Spec == Init /\ [][Next]_vars

(* -------------------------- the document loader ---------------------- *)

\* pd.isna(...) is true of this value: the cell of the dataset is empty
NaN == "NaN"

\* what a cell of the dataset holds when it is not empty
CellValues == {"x", "y"}

\* the optional columns, in the order recipe_text_template tests them
OptionalFields ==
    <<"Preparation Time", "Total Time", "Number of Servings", "Keywords", "Instructions">>

\* the columns the template renders without a test
MandatoryFields == <<"name", "Category", "Ingredients">>

\* the rows of the dataset: the mandatory columns hold a value, an optional one may be empty
Rows ==
    {r \in [Range(MandatoryFields) \cup Range(OptionalFields) -> CellValues \cup {NaN}] :
        /\ r["name"] = "x"
        /\ r["Category"] = "x"
        /\ r["Ingredients"] # NaN}

\* the piece of text one `template +=` adds: which column it renders, with what value
Clause(field, values) == [field |-> field, values |-> values]

\* `if not pd.isna(row[field]): template += f"... {row[field]} ..."`
OptionalClause(row, field) ==
    IF row[field] # NaN THEN <<Clause(field, <<row[field]>>)>> ELSE <<>>

\* recipe_text_template with the keywords clause under the test of the line above it
RecipeTextTemplateWrongTest(row) ==
    <<Clause("head", <<row["name"], row["Category"], row["Ingredients"]>>)>>
        \o OptionalClause(row, "Preparation Time")
        \o OptionalClause(row, "Total Time")
        \o OptionalClause(row, "Number of Servings")
        \o (IF row["Number of Servings"] # NaN
            THEN <<Clause("Keywords", <<row["Keywords"]>>)>> ELSE <<>>)
        \o OptionalClause(row, "Instructions")

\* recipe_text_template: the text as the sequence of its clauses
RecipeTextTemplate(row) ==
    <<Clause("head", <<row["name"], row["Category"], row["Ingredients"]>>)>>
        \o OptionalClause(row, "Preparation Time")
        \o OptionalClause(row, "Total Time")
        \o OptionalClause(row, "Number of Servings")
        \o OptionalClause(row, "Keywords")
        \o OptionalClause(row, "Instructions")

\* a row of the dataset is about to be rendered
TemplateInit ==
    /\ ServerInit
    /\ phase = "startup"
    /\ chunker = Idle
    /\ client = Idle
    /\ \E row \in Rows : loader = [pc |-> "row", row |-> row, text |-> <<>>]

\* .apply(recipe_text_template, axis=1) on the row
Render ==
    /\ loader.pc = "row"
    /\ loader' = [loader EXCEPT !.pc = "rendered", !.text = RecipeTextTemplate(loader.row)]
    /\ UNCHANGED <<serverVars, phase, index, chunker, client>>

TemplateNext == Render

SpecTemplate == TemplateInit /\ [][TemplateNext]_vars

(* ------------------------------ the chunker --------------------------- *)

\* the documents: their text, which decides how many nodes the splitter makes of one
DocTexts == {"a", "b"}

\* the document sequences of at most MaxDocs documents
DocSeqs == UNION {[1..n -> DocTexts] : n \in 0..MaxDocs}

\* the nodes the splitter makes of one document: "b" is split in two
NodesOf(doc) ==
    IF doc = "b" THEN <<[text |-> doc, part |-> 1], [text |-> doc, part |-> 2]>>
    ELSE <<[text |-> doc, part |-> 1]>>

\* splitter.get_nodes_from_documents(doc_batch): the nodes of the batch's documents, in order
RECURSIVE Split(_)
Split(docBatch) ==
    IF docBatch = <<>> THEN <<>>
    ELSE NodesOf(Head(docBatch)) \o Split(Tail(docBatch))

\* an islice that yields full batches only: a shorter remainder is dropped
IsliceFullOnly(documents, consumed, n) ==
    IF consumed + n <= Len(documents) THEN SubSeq(documents, consumed + 1, consumed + n)
    ELSE <<>>

\* list(islice(it, n)): the next n elements of the iterator, or those that are left
Islice(documents, consumed, n) ==
    SubSeq(documents, consumed + 1,
           IF consumed + n <= Len(documents) THEN consumed + n ELSE Len(documents))

\* chunk_documents(documents, batch_size) is called: it = iter(iterable), nodes = []
ChunkInit ==
    /\ ServerInit
    /\ phase = "startup"
    /\ loader = Idle
    /\ client = Idle
    /\ \E documents \in DocSeqs, n \in 1..MaxBatch :
        chunker = [pc |-> "loop", documents |-> documents, batch_size |-> n,
                   consumed |-> 0, batches |-> <<>>, nodes |-> <<>>]

\* one turn of `for doc_batch in batch(documents, batch_size)`: the generator
\* takes the next chunk; an empty chunk ends the loop, another is split and
\* its nodes are added
ChunkBatch ==
    /\ chunker.pc = "loop"
    /\ LET chunk == Islice(chunker.documents, chunker.consumed, chunker.batch_size)
       IN  chunker' =
            IF chunk = <<>>
            THEN [chunker EXCEPT !.pc = "done"]
            ELSE [chunker EXCEPT !.consumed = @ + Len(chunk),
                                 !.batches = Append(@, chunk),
                                 !.nodes = @ \o Split(chunk)]
    /\ UNCHANGED <<serverVars, phase, index, loader, client>>

ChunkNext == ChunkBatch

\* the loop is a sequential program: while it has a turn to take, it takes it
SpecChunk == ChunkInit /\ [][ChunkNext]_vars /\ WF_vars(ChunkNext)

(* ------------------------------ the client ---------------------------- *)

\* "conversation_id" is not in st.session_state
NoId == 0

\* generate_welcome_message(): the greeting before noon and the one after
WelcomeMessages == {AssistantMessage("Kalimera"), AssistantMessage("Kalispera")}

\* what query_fastapi returns when the request raises RequestException
TroubleText == "I'm having trouble connecting to the server. Please try again later."

\* the histories GET /history returns to the client
Histories == {<<>>, <<UserMessage("q1"), AssistantMessage("r1")>>, <<UserMessage("q2")>>}

\* the session after a script run: the fields of st.session_state, and of the
\* chat attempt made last its text, how many messages were shown before it and
\* how it went
Session(cid, messages, text, before, outcome) ==
    [pc |-> "ready", conversation_id |-> cid, messages |-> messages,
     text |-> text, before |-> before, outcome |-> outcome]

\* the browser opens the app: st.session_state is empty
ClientInit ==
    /\ ServerInit
    /\ phase = "serving"
    /\ loader = Idle
    /\ chunker = Idle
    /\ client = [pc |-> "load", conversation_id |-> NoId, messages |-> <<>>,
                 text |-> "", before |-> 0, outcome |-> "none"]

\* the script's first lines while no conversation_id is in the session:
\* start_new_conversation() gives an id and the session is set up, or it gives
\* None and only the welcome message is set (lines 72-80)
ClientLoad ==
    /\ client.pc = "load"
    /\ \E w \in WelcomeMessages :
        \/ \E cid \in Ids : client' = Session(cid, <<w>>, "", 0, "none")
        \/ client' = [client EXCEPT !.messages = IF @ = <<>> THEN <<w>> ELSE @]
    /\ UNCHANGED <<serverVars, phase, index, loader, chunker>>

\* a "Conversation started at ..." button: switch to the conversation and show
\* its history, or nothing if the history cannot be fetched (lines 92-95)
ClientSelect ==
    /\ client.pc = "ready"
    /\ \E cid \in Ids, h \in Histories :
        client' = Session(cid, h, "", 0, "none")
    /\ UNCHANGED <<serverVars, phase, index, loader, chunker>>

\* the "Start a New Conversation" button (lines 100-105)
ClientNew ==
    /\ client.pc = "ready"
    /\ \E w \in WelcomeMessages :
        \/ \E cid \in Ids : client' = Session(cid, <<w>>, "", 0, "none")
        \/ client' = [client EXCEPT !.text = "", !.before = 0, !.outcome = "none"]
    /\ UNCHANGED <<serverVars, phase, index, loader, chunker>>

\* the chat input, the server answering (lines 118-129)
ClientChatOk ==
    /\ client.pc = "ready"
    /\ client.conversation_id # NoId
    /\ Len(client.messages) + 2 <= MaxShown
    /\ \E text \in Texts, answer \in Answers :
        client' = Session(client.conversation_id,
                          client.messages \o <<UserMessage(text), AssistantMessage(answer)>>,
                          text, Len(client.messages), "answered")
    /\ UNCHANGED <<serverVars, phase, index, loader, chunker>>

\* the chat input, the request failing: query_fastapi returns its trouble text,
\* which is appended like an answer (lines 67-68, 125-128)
ClientChatFail ==
    /\ client.pc = "ready"
    /\ client.conversation_id # NoId
    /\ Len(client.messages) + 2 <= MaxShown
    /\ \E text \in Texts :
        client' = Session(client.conversation_id,
                          client.messages \o
                              <<UserMessage(text), AssistantMessage(TroubleText)>>,
                          text, Len(client.messages), "failed")
    /\ UNCHANGED <<serverVars, phase, index, loader, chunker>>

ClientNext ==
    \/ ClientLoad
    \/ ClientSelect
    \/ ClientNew
    \/ ClientChatOk
    \/ ClientChatFail

SpecClient == ClientInit /\ [][ClientNext]_vars

(* ------------------------------ properties ---------------------------- *)

\* the messages a conversation can hold
Messages == {UserMessage(t) : t \in Texts} \cup {AssistantMessage(a) : a \in Answers}

\* the request that has just completed in this step
JustCompleted(op) == last'.tag # last.tag /\ last'.op = op

\* the log get_conversation returns for an id
LogOf(cid) == GetConversation(conversations, cid).value

\* C1: for every existing conversation, get_conversation returns exactly the
\* messages passed to store_message on it, in the order of the calls: none is
\* lost, duplicated or reordered.
C1_AppendOrder ==
    \A cid \in Range(issued) :
        LET g == GetConversation(conversations, cid)
        IN  /\ ~g.raised
            /\ g.value = [i \in 1..Len(calls[cid]) |-> calls[cid][i].m]

\* a conversation that is not first in the list holds two stored messages
C1_Witness ==
    /\ Len(conversations) = 2
    /\ Len(calls[conversations[2].id]) >= 2
    /\ Len(conversations[2].messages) >= 2

\* C2: on an id the registry does not hold, get_conversation and store_message
\* raise the not-found error (never a normal return, never the error of a failed
\* query) and store_message leaves the registry as it was; the request that
\* named the id is answered with that error.
C2_UnknownIdRaises ==
    /\ \A cid \in Ids \ Range(issued) :
        /\ GetConversation(conversations, cid).raised
        /\ GetConversation(conversations, cid).exc = NotFoundError(cid)
        /\ NotFoundError(cid) # QueryError
        /\ \A m \in Messages :
            LET s == StoreMessage(conversations, cid, m)
            IN  s.raised /\ s.exc = NotFoundError(cid) /\ s.convs = conversations
    /\ (last.op \in {"history", "chat"} /\ last.cid \notin Range(issued)) =>
            (last.status # 200 /\ last.body = NotFoundError(last.cid))

\* a history request on an unknown id has completed while the registry holds a conversation
C2_Witness ==
    /\ last.op = "history"
    /\ last.cid \notin Range(issued)
    /\ last.status = 500
    /\ Len(conversations) >= 1

\* C3: a chat request that succeeds leaves the conversation's log as it was when
\* the request was accepted plus two messages, the user's text and then the
\* assistant's answer, and the response is the content of that assistant message.
C3_AnswerAppendsTwo ==
    [][(JustCompleted("chat") /\ last'.status = 200) =>
        LET g == GetConversation(conversations', last'.cid)
        IN  /\ ~g.raised
            /\ Len(g.value) = Len(last'.log0) + 2
            /\ g.value = last'.log0 \o
                    <<UserMessage(last'.text), AssistantMessage(last'.body)>>]_vars

\* a chat on a fresh conversation has succeeded and the log holds its two messages
C3_Witness ==
    /\ last.op = "chat"
    /\ last.status = 200
    /\ last.log0 = <<>>
    /\ LogOf(last.cid) = <<UserMessage(last.text), AssistantMessage(last.body)>>

\* C4: a chat request whose query fails is answered with the query's error, and
\* the log is the log at acceptance plus the user message alone: the user turn
\* is kept and no assistant turn is added.
C4_FailureKeepsUserTurn ==
    [][(JustCompleted("chat") /\ last'.status = 500 /\ last'.body = QueryError) =>
        LET g == GetConversation(conversations', last'.cid)
        IN  /\ ~g.raised
            /\ g.value = Append(last'.log0, UserMessage(last'.text))
            /\ calls' = calls]_vars

\* a chat on an empty conversation has failed in the query and the log holds one message
C4_Witness ==
    /\ last.op = "chat"
    /\ last.status = 500
    /\ last.body = QueryError
    /\ last.log0 = <<>>
    /\ LogOf(last.cid) = <<UserMessage(last.text)>>

\* C5: a chat request on an unknown id is answered with the not-found error,
\* no query is started for it, and the registry (the conversations and their
\* logs) is unchanged.
C5_UnknownIdAborts ==
    [][(JustCompleted("chat") /\ last'.cid \notin Range(issued)) =>
        /\ last'.status = 500
        /\ last'.body = NotFoundError(last'.cid)
        /\ queries' = queries
        /\ conversations' = conversations]_vars

\* a chat on an unknown id has completed while a conversation with a log exists
C5_Witness ==
    /\ last.op = "chat"
    /\ last.cid \notin Range(issued)
    /\ last.status = 500
    /\ \E i \in 1..Len(conversations) : conversations[i].messages # <<>>

\* C6: in every conversation's log the messages stand in the order in which
\* their requests were accepted: a message of an earlier request never follows
\* a message of a later one.
C6_AcceptanceOrder ==
    \A cid \in Range(issued) :
        /\ Len(LogOf(cid)) = Len(calls[cid])
        /\ \A i, j \in 1..Len(calls[cid]) :
            i < j => /\ calls[cid][i].tag <= calls[cid][j].tag
                     /\ LogOf(cid)[i] = calls[cid][i].m
                     /\ LogOf(cid)[j] = calls[cid][j].m

\* two chat requests on one conversation have both been answered
C6_Witness ==
    \E cid \in Range(issued) :
        /\ Len(calls[cid]) = 4
        /\ calls[cid][1].tag = calls[cid][2].tag
        /\ calls[cid][3].tag = calls[cid][4].tag
        /\ calls[cid][2].tag < calls[cid][3].tag

\* a request that touches no conversation but B, or none at all
RequestOn(B) ==
    \/ AllConversations
    \/ History /\ last'.cid = B
    \/ ChatBegin /\ \E f \in inflight' \ inflight : f.cid = B

\* C7: while an answer for conversation A is between its two appends (its query
\* is running), a request on another conversation B, or one creating or listing
\* conversations, can be executed.
C7_OtherConversationsProceed ==
    \A f \in inflight :
        accepted < MaxReqs =>
            /\ ENABLED AllConversations
            /\ \A B \in Range(issued) \ {f.cid} : ENABLED RequestOn(B)

\* C8: the list get_all_conversations returns is sorted by start_time,
\* descending, whatever times the clock delivered.
C8_SortedDescending ==
    LET all == GetAllConversations(conversations)
    IN  \A i, j \in 1..Len(all) : i < j => all[i].start_time >= all[j].start_time

\* the conversation created last has the later start time and is listed first,
\* and a message has been stored since
C8_Witness ==
    /\ Len(issued) >= 2
    /\ GetAllConversations(conversations)[1].id = issued[Len(issued)]
    /\ conversations[1].start_time > conversations[2].start_time
    /\ \E cid \in Ids : calls[cid] # <<>>

\* C9: the ids start_new_conversation has returned are pairwise distinct, and
\* the registry holds those ids and no id twice.
C9_DistinctIds ==
    /\ \A i, j \in 1..Len(issued) : i # j => issued[i] # issued[j]
    /\ \A i, j \in 1..Len(conversations) : i # j => conversations[i].id # conversations[j].id
    /\ {conversations[i].id : i \in 1..Len(conversations)} = Range(issued)

\* as many conversations as the run allows have been created, and requests were served since
C9_Witness ==
    /\ Len(issued) = MaxConvs
    /\ Len(conversations) = MaxConvs
    /\ last.op = "chat"

\* C10: a /chat or /history request naming an unknown conversation id is
\* answered with a client-error status (4xx), unlike the 500 a failed query gets.
C10_NotFoundIsClientError ==
    (last.op \in {"chat", "history"} /\ last.cid \notin Range(issued)) =>
        (last.status >= 400 /\ last.status <= 499)

\* the log get_conversation returns for an id after this step
LogOfNext(cid) == GetConversation(conversations', cid).value

\* s is an initial part of t
IsPrefix(s, t) == Len(s) <= Len(t) /\ SubSeq(t, 1, Len(s)) = s

\* the ids of the list are pairwise distinct
DistinctIn(convs) ==
    \A i, j \in 1..Len(convs) : i # j => convs[i].id # convs[j].id

\* the list is sorted by start_time, descending
SortedIn(convs) ==
    \A i, j \in 1..Len(convs) : i < j => convs[i].start_time >= convs[j].start_time

\* C11: every step leaves every existing conversation's log an extension of
\* what it was: a message once appended is never removed, moved or changed.
C11_AppendOnly ==
    [][\A cid \in Range(issued) : IsPrefix(LogOf(cid), LogOfNext(cid))]_vars

\* a log of three messages: two requests have appended to one conversation
C11_Witness ==
    \E cid \in Range(issued) : Len(LogOf(cid)) = 3 /\ Len(calls[cid]) = 3

\* C12: an id start_new_conversation has returned stays in the registry: after
\* every step get_conversation and store_message on it succeed and the listing
\* holds it, once, with the start_time it had.
C12_IdsStay ==
    [][/\ \A cid \in Range(issued') :
            /\ ~GetConversation(conversations', cid).raised
            /\ \A m \in Messages : ~StoreMessage(conversations', cid, m).raised
            /\ Cardinality(Positions(GetAllConversations(conversations'), cid)) = 1
       /\ \A i \in 1..Len(conversations) :
            \E j \in 1..Len(conversations') :
                /\ GetAllConversations(conversations')[j].id = conversations[i].id
                /\ GetAllConversations(conversations')[j].start_time
                        = conversations[i].start_time]_vars

\* two conversations created at the same clock reading are both listed, and the
\* first one still answers a history request
C12_Witness ==
    /\ Len(issued) = 2
    /\ Len(conversations) = 2
    /\ conversations[1].start_time = conversations[2].start_time
    /\ last.op = "history"
    /\ last.cid = issued[1]
    /\ last.status = 200

\* C13: a request that fails is answered with the transport's error response
\* carrying the failure; afterwards the event loop is free, the registry has
\* distinct ids, is sorted and has lost nothing of its logs, and further
\* requests are taken up.
C13_ErrorsAreContained ==
    /\ [][(last'.tag # last.tag /\ last'.status # 200) =>
            /\ last'.status = 500
            /\ last'.op \in {"chat", "history"}
            /\ last'.body \in {NotFoundError(last'.cid), QueryError}
            /\ inflight' = {}
            /\ DistinctIn(conversations')
            /\ SortedIn(conversations')
            /\ \A cid \in Range(issued) : IsPrefix(LogOf(cid), LogOfNext(cid))]_vars
    /\ []((inflight = {} /\ accepted > 0 /\ accepted < MaxReqs) =>
            (ENABLED AllConversations /\ ENABLED History /\ ENABLED ChatBegin))

\* after a failed query and a not-found response, a request was still served
C13_Witness ==
    /\ failed # {}
    /\ last.status = 200
    /\ \A t \in failed : t < last.tag

\* C15: a history or listing request changes nothing in the registry, and a
\* read that directly follows the same read, with no write in between, gets
\* the same response.
C15_ReadsAreIdempotent ==
    [][/\ (JustCompleted("history") \/ JustCompleted("all")) =>
            conversations' = conversations
       /\ (JustCompleted("history") /\ last.op = "history" /\ last'.cid = last.cid) =>
            (last'.status = last.status /\ last'.body = last.body)
       /\ (JustCompleted("all") /\ last.op = "all") =>
            (last'.status = last.status /\ last'.body = last.body)]_vars

\* a history request has read a log of two messages, and the log is still there
C15_Witness ==
    /\ last.op = "history"
    /\ last.status = 200
    /\ Len(last.body) = 2
    /\ LogOf(last.cid) = last.body

\* how many messages of a log have this role
CountRole(log, role) == Cardinality({i \in 1..Len(log) : log[i].role = role})

\* the requests whose handler is inside query_engine.query
InFlightTags == {f.tag : f \in inflight}

\* C19: every log is well-formed in its turns: it does not start with an
\* assistant message, every assistant message directly follows a user message,
\* there are no more assistant than user messages, and a user message directly
\* follows another only if the earlier one's request failed or is in flight.
C19_TurnsWellFormed ==
    \A cid \in Range(issued) :
        LET log == LogOf(cid)
        IN  /\ log # <<>> => log[1].role = "user"
            /\ \A i \in 1..Len(log) :
                log[i].role = "assistant" => (i > 1 /\ log[i - 1].role = "user")
            /\ CountRole(log, "assistant") <= CountRole(log, "user")
            /\ CountRole(log, "assistant") + CountRole(log, "user") = Len(log)
            /\ \A i \in 1..(Len(log) - 1) :
                (log[i].role = "user" /\ log[i + 1].role = "user") =>
                    /\ i <= Len(calls[cid])
                    /\ calls[cid][i].tag \in failed \cup InFlightTags

\* a log with a failed attempt followed by an answered one: user, user, assistant
C19_Witness ==
    \E cid \in Range(issued) :
        /\ Len(LogOf(cid)) = 3
        /\ LogOf(cid)[1].role = "user"
        /\ LogOf(cid)[2].role = "user"
        /\ LogOf(cid)[3].role = "assistant"
        /\ failed # {}

\* C20: a step that stores a message changes the log of the one conversation
\* the call names and nothing else (the other logs, every start_time and the
\* order of the listing stay); a step that creates a conversation leaves every
\* existing conversation as it was (id, start_time and log) and adds one.
C20_FrameOfMutations ==
    [][/\ issued' = issued =>
            /\ GetAllConversations(conversations') = GetAllConversations(conversations)
            /\ \A cid \in Range(issued) :
                calls'[cid] = calls[cid] => LogOfNext(cid) = LogOf(cid)
            /\ Cardinality({cid \in Range(issued) : LogOfNext(cid) # LogOf(cid)}) <= 1
       /\ issued' # issued =>
            /\ Len(conversations') = Len(conversations) + 1
            /\ \A i \in 1..Len(conversations) :
                \E j \in 1..Len(conversations') : conversations'[j] = conversations[i]
            /\ \A cid \in Range(issued) : LogOfNext(cid) = LogOf(cid)]_vars

\* a message was stored in the conversation that is second in the list, and the
\* log of the first is still empty
C20_Witness ==
    /\ Len(conversations) = 2
    /\ Len(conversations[2].messages) = 1
    /\ conversations[1].messages = <<>>
    /\ inflight # {}

\* C14: the index is built during startup and at most once, requests are
\* served only after startup has returned with the index built, no request
\* changes the index, and after a failed startup no request is ever served.
C14_IndexBeforeTraffic ==
    /\ []((accepted > 0 \/ inflight # {}) => (phase = "serving" /\ index = "built"))
    /\ [](phase = "aborted" => (accepted = 0 /\ conversations = <<>>))
    /\ [][index' # index => (phase = "startup" /\ index = "None")]_vars
    /\ [][phase # "startup" => (phase' = phase /\ index' = index)]_vars

\* requests have been served, one of them querying the index
C14_Witness ==
    /\ phase = "serving"
    /\ index = "built"
    /\ accepted = MaxReqs
    /\ queries > 0

\* the place of an optional column in the template's order
FieldIndex(field) == CHOOSE k \in 1..Len(OptionalFields) : OptionalFields[k] = field

\* C16: the rendered text starts with the name/category/ingredients clause and
\* goes on with one clause for each optional column that is present, carrying
\* its value, in the template's order, and with no clause for an absent column.
C16_TemplateClauses ==
    loader.pc = "rendered" =>
        LET t == loader.text
            r == loader.row
        IN  /\ Len(t) >= 1
            /\ t[1].field = "head"
            /\ t[1].values = <<r["name"], r["Category"], r["Ingredients"]>>
            /\ \A i \in 2..Len(t) :
                /\ t[i].field \in Range(OptionalFields)
                /\ r[t[i].field] # NaN
                /\ t[i].values = <<r[t[i].field]>>
            /\ \A i, j \in 2..Len(t) :
                i < j => FieldIndex(t[i].field) < FieldIndex(t[j].field)
            /\ \A f \in Range(OptionalFields) :
                r[f] # NaN => \E i \in 2..Len(t) : t[i].field = f

\* a row without preparation time and with keywords has been rendered: no
\* preparation-time clause, a keywords clause
C16_Witness ==
    /\ loader.pc = "rendered"
    /\ loader.row["Preparation Time"] = NaN
    /\ loader.row["Number of Servings"] = NaN
    /\ loader.row["Keywords"] # NaN
    /\ \E i \in 2..Len(loader.text) : loader.text[i].field = "Keywords"
    /\ \A i \in 1..Len(loader.text) : loader.text[i].field # "Preparation Time"

\* the number of batches of at most n that hold len documents
BatchCount(len, n) == (len + n - 1) \div n

\* the k-th run of n documents of a sequence
Run(documents, k, n) ==
    SubSeq(documents, (k - 1) * n + 1,
           IF k * n <= Len(documents) THEN k * n ELSE Len(documents))

\* the nodes of the first k runs, run after run
RECURSIVE NodesOfRuns(_, _, _)
NodesOfRuns(documents, k, n) ==
    IF k = 0 THEN <<>>
    ELSE NodesOfRuns(documents, k - 1, n) \o Split(Run(documents, k, n))

\* C17: chunk_documents ends for every input, and when it has ended the batches
\* it passed to the splitter are the consecutive runs of batch_size documents
\* (none empty, all but the last full, together the whole input in order) and
\* the returned nodes are the splitter's outputs for those batches, in order.
C17_BatchesPartition ==
    /\ <>(chunker.pc = "done")
    /\ [](chunker.pc = "done" =>
            LET d == chunker.documents
                n == chunker.batch_size
                b == chunker.batches
            IN  /\ Len(b) = BatchCount(Len(d), n)
                /\ \A k \in 1..Len(b) :
                    /\ b[k] # <<>>
                    /\ Len(b[k]) <= n
                    /\ k < Len(b) => Len(b[k]) = n
                    /\ b[k] = Run(d, k, n)
                /\ chunker.consumed = Len(d)
                /\ chunker.nodes = NodesOfRuns(d, Len(b), n))

\* three documents went through in batches of two: a full batch and a rest of one
C17_Witness ==
    /\ chunker.pc = "done"
    /\ Len(chunker.documents) = 3
    /\ chunker.batch_size = 2
    /\ Len(chunker.batches) = 2
    /\ Len(chunker.batches[2]) = 1

\* C18: after a chat request that failed, what the client's message list has
\* gained for the attempt is the user's message and no assistant message.
C18_FailureIsNoAssistantTurn ==
    client.outcome = "failed" =>
        LET gained == SubSeq(client.messages, client.before + 1, Len(client.messages))
        IN  /\ gained # <<>>
            /\ gained[1] = UserMessage(client.text)
            /\ \A i \in 1..Len(gained) : gained[i].role # "assistant"

====
